---- MODULE Spec2Model ----
(***************************************************************************)
(* EcoGuia backend (src/eco_guia_backend.py): the dialogue graph loaded    *)
(* from the bot definition, the transition function resolve_next_node,     *)
(* the HTTP handlers /api/start, /api/step, /api/bot and /api/reservas,    *)
(* and the tiered name search over the unified reservation table; and the  *)
(* offline script src/fix_fill_reservas.py, which fills the records of the *)
(* unified table from a curated mapping.                                   *)
(***************************************************************************)
EXTENDS Integers, Sequences, FiniteSets, TLC

\* bot_definition, nodes_index, start_node_id, reservas_list: the module's
\* globals, set once when the module is loaded.  request, response: the HTTP
\* request last served and the answer it got (the server keeps no session:
\* a step request carries the id of the node the client is at).
\* inflight: with several conversations at once, the request that each
\* conversation has sent and the answer it has got.
\* json_file, records, cursor, updated, not_found, fuzzy_matches: the file
\* reservas_unificadas.json and the globals of fix_fill_reservas.py; cursor
\* is the position that the loop over the records is at and pc the part of
\* the script that runs next.
VARIABLES bot_definition, nodes_index, start_node_id, reservas_list,
          request, response, inflight,
          json_file, records, cursor, updated, not_found, fuzzy_matches, pc

Script ==
    <<json_file, records, cursor, updated, not_found, fuzzy_matches, pc>>

vars == <<bot_definition, nodes_index, start_node_id, reservas_list,
          request, response, inflight, Script>>

\* The script has not run, and no conversation runs beside the request
\* being served.
ScriptNotRun ==
    /\ json_file = <<>>
    /\ records = <<>>
    /\ cursor = 0
    /\ updated = 0
    /\ not_found = <<>>
    /\ fuzzy_matches = <<>>
    /\ pc = "off"
OneClient == inflight = <<>>

(***************************************************************************)
(* Python values.  None stands for Python's None, which is also what       *)
(* dict.get yields for a key the JSON object does not have.                *)
(***************************************************************************)
None == "<None>"

\* Python truthiness of an optional string: `if not x` is taken for None and "".
Truthy(x) == x # None /\ x # ""

\* d.get(key, default) for a key whose absence is written None.
GetOr(v, default) == IF v = None THEN default ELSE v

SeqsUpTo(S, n) == UNION {[1..k -> S] : k \in 0..n}

\* F(x) with x computed once, as a local variable of the code is.
With(x, F(_)) == CHOOSE r \in {F(v) : v \in {x}} : TRUE

(***************************************************************************)
(* Bounds of the model and the pools the definitions are drawn from.       *)
(***************************************************************************)
MaxNodes == 2
MaxOptions == 2

DefaultStart == "inicio_menu"
NodeIds == {"inicio_menu", "B"}
\* "Z" is an id that no node carries: a dangling reference.
TargetIds == {None, "", "B", "Z"}
OptionIds == {"1", "2"}
NodeTypes == {"menu", "response", "input", "end", "otro", None}
StartIds == {None, "B"}
RequestNodeIds == {None, "inicio_menu", "B", "Z"}
RequestOptionIds == {None, "", "1", "2"}
UserInputs == {None, "texto"}

\* An option of a node: {"id": ..., "label": ..., "next_node_id": ...}.
\* Options "1" are labelled and name a node, a dangling id or nothing;
\* option "2" has no label and an empty next_node_id.
Options ==
    {o \in [id : OptionIds, label : {None, "Ir"}, next_node_id : TargetIds] :
        /\ o.id = "1" => o.label = "Ir" /\ o.next_node_id # ""
        /\ o.id = "2" => o.label = None /\ o.next_node_id = ""}

\* A node of the definition.  A node without an "options" key has options <<>>
\* (every read of it is node.get("options", [])).  Menu and response nodes
\* carry the options, the other types carry the next_node_id; the nodes of
\* type "otro" have no message.
Nodes ==
    {n \in [id : NodeIds, type : NodeTypes, message : {None, "hola"},
            options : SeqsUpTo(Options, MaxOptions), next_node_id : TargetIds] :
        /\ n.type \in {"menu", "response"} => n.next_node_id = None
        /\ n.type \notin {"menu", "response"} => n.options = <<>>
        /\ n.type = "end" => n.next_node_id \in {None, "B"}
        /\ n.message = None <=> n.type = "otro"}

\* The value standing where no node is returned.
NoNode == [id |-> None, type |-> None, message |-> None, options |-> <<>>,
           next_node_id |-> None]

(***************************************************************************)
(* Module load: nodes_index = {node["id"]: node for node in nodes}.        *)
(* The comprehension inserts in sequence order, so a later node overwrites *)
(* an earlier node of the same id.                                         *)
(***************************************************************************)
IndexedPosition_First(nodes, k) ==
    CHOOSE i \in 1..Len(nodes) :
        /\ nodes[i].id = k
        /\ \A j \in 1..Len(nodes) : nodes[j].id = k => i <= j

IndexedPosition(nodes, k) ==
    CHOOSE i \in 1..Len(nodes) :
        /\ nodes[i].id = k
        /\ \A j \in 1..Len(nodes) : nodes[j].id = k => j <= i

BuildIndex(nodes) ==
    [k \in {nodes[i].id : i \in 1..Len(nodes)} |->
        nodes[IndexedPosition(nodes, k)]]

LoadStart_NoDefault(def) == def.start_node_id

\* start_node_id = bot_definition.get("start_node_id", "inicio_menu")
LoadStart(def) == GetOr(def.start_node_id, DefaultStart)

(***************************************************************************)
(* node_to_payload: the node as the frontend receives it.                  *)
(***************************************************************************)
node_to_payload_EndAwaitsInput(node) ==
    LET node_type == GetOr(node.type, "response")
        formatted_options ==
            [i \in 1..Len(node.options) |->
                [id |-> node.options[i].id,
                 label |-> GetOr(node.options[i].label, "Opcion")]]
    IN  [node_id |-> node.id,
         type |-> node_type,
         message |-> GetOr(node.message, ""),
         options |-> formatted_options,
         expects_input |-> (node_type \in {"input", "end"}),
         is_end |-> (node_type = "end")]

node_to_payload(node) ==
    LET node_type == GetOr(node.type, "response")
        formatted_options ==
            [i \in 1..Len(node.options) |->
                [id |-> node.options[i].id,
                 label |-> GetOr(node.options[i].label, "Opcion")]]
    IN  [node_id |-> node.id,
         type |-> node_type,
         message |-> GetOr(node.message, ""),
         options |-> formatted_options,
         expects_input |-> (node_type = "input"),
         is_end |-> (node_type = "end")]

(***************************************************************************)
(* resolve_next_node.  Its result is the node returned, or the message of  *)
(* the ValueError raised.                                                  *)
(***************************************************************************)
Returns(node) == [raised |-> None, node |-> node]
Raises(msg) == [raised |-> msg, node |-> NoNode]

\* The messages of the ValueErrors, by the statement that raises them.
ErrNodoNoEncontrado == "Nodo no encontrado"
ErrFaltaOptionId == "Falta 'option_id' para un nodo tipo menu/response"
ErrOptionNoExiste == "Option no existe en el nodo"
ErrNextNoExiste == "El next_node_id no existe en la definicion del bot."
ErrInputSinNext == "Nodo input no tiene next_node_id"

\* The loop over the options: the next_node_id of the first option whose id
\* equals option_id (the loop breaks there), None when no option has it.
FirstMatch_Last(options, option_id) ==
    LET hits == {i \in 1..Len(options) : options[i].id = option_id}
    IN  IF hits = {} THEN None
        ELSE options[CHOOSE i \in hits : \A j \in hits : j <= i].next_node_id

FirstMatch_SkipsEmpty(options, option_id) ==
    LET hits == {i \in 1..Len(options) :
                    options[i].id = option_id /\ Truthy(options[i].next_node_id)}
    IN  IF hits = {} THEN None
        ELSE options[CHOOSE i \in hits : \A j \in hits : i <= j].next_node_id

FirstMatch(options, option_id) ==
    LET hits == {i \in 1..Len(options) : options[i].id = option_id}
    IN  IF hits = {} THEN None
        ELSE options[CHOOSE i \in hits : \A j \in hits : i <= j].next_node_id

MenuBranch_NoCheck(index, current_node, option_id) ==
    LET next_node_id == FirstMatch(current_node.options, option_id)
    IN  IF ~Truthy(next_node_id) THEN Raises(ErrOptionNoExiste)
        ELSE IF next_node_id \notin DOMAIN index THEN Raises(ErrNextNoExiste)
        ELSE Returns(index[next_node_id])

\* node_type in ("menu", "response")
MenuBranch(index, current_node, option_id) ==
    IF ~Truthy(option_id) THEN Raises(ErrFaltaOptionId)
    ELSE LET next_node_id == FirstMatch(current_node.options, option_id)
         IN  IF ~Truthy(next_node_id) THEN Raises(ErrOptionNoExiste)
             ELSE IF next_node_id \notin DOMAIN index
                  THEN Raises(ErrNextNoExiste)
                  ELSE Returns(index[next_node_id])

InputBranch_Lenient(index, current_node) ==
    LET next_node_id == current_node.next_node_id
    IN  IF next_node_id \in DOMAIN index THEN Returns(index[next_node_id])
        ELSE Returns(current_node)

\* node_type == "input"
InputBranch(index, current_node) ==
    LET next_node_id == current_node.next_node_id
    IN  IF ~Truthy(next_node_id) THEN Raises(ErrInputSinNext)
        ELSE IF next_node_id \notin DOMAIN index
             THEN Raises(ErrNextNoExiste)
             ELSE Returns(index[next_node_id])

FallbackBranch_Strict(index, current_node) ==
    LET next_node_id == current_node.next_node_id
    IN  IF next_node_id \in DOMAIN index THEN Returns(index[next_node_id])
        ELSE Raises(ErrNextNoExiste)

FallbackBranch_IgnoresNext(index, current_node) == Returns(current_node)

\* any other type: nodes_index.get(next_node_id, current_node)
FallbackBranch(index, current_node) ==
    LET next_node_id == current_node.next_node_id
    IN  IF next_node_id \in DOMAIN index THEN Returns(index[next_node_id])
        ELSE Returns(current_node)

EndBranch_FollowsNext(index, current_node) ==
    LET next_node_id == current_node.next_node_id
    IN  IF next_node_id \in DOMAIN index THEN Returns(index[next_node_id])
        ELSE Returns(current_node)

\* node_type == "end"
EndBranch(index, current_node) == Returns(current_node)

resolve_next_node(index, current_node_id, option_id, user_input) ==
    IF current_node_id \notin DOMAIN index THEN Raises(ErrNodoNoEncontrado)
    ELSE LET current_node == index[current_node_id]
             node_type == current_node.type
         IN  IF node_type \in {"menu", "response"}
                 THEN MenuBranch(index, current_node, option_id)
             ELSE IF node_type = "input" THEN InputBranch(index, current_node)
             ELSE IF node_type = "end" THEN EndBranch(index, current_node)
             ELSE FallbackBranch(index, current_node)

(***************************************************************************)
(* HTTP requests and responses.  body says what the response carries: the  *)
(* payload of a node, an error message, the whole bot definition, or a     *)
(* list of reservation records.                                            *)
(***************************************************************************)
NoPayload ==
    [node_id |-> None, type |-> None, message |-> None, options |-> <<>>,
     expects_input |-> FALSE, is_end |-> FALSE]
NoResponse ==
    [status |-> 0, body |-> "none", error |-> None, payload |-> NoPayload,
     records |-> <<>>]
PayloadResponse(node) ==
    [NoResponse EXCEPT !.status = 200, !.body = "payload",
                       !.payload = node_to_payload(node)]
ErrorResponse(status, msg) ==
    [NoResponse EXCEPT !.status = status, !.body = "error", !.error = msg]
BotResponse == [NoResponse EXCEPT !.status = 200, !.body = "bot_definition"]
RecordsResponse(rs) ==
    [NoResponse EXCEPT !.status = 200, !.body = "records", !.records = rs]

ErrMissingNodeId == "Missing 'node_id'"
ErrNodoInicial == "Nodo inicial no encontrado."

NoRequest ==
    [op |-> "none", node_id |-> None, option_id |-> None, user_input |-> None,
     q |-> <<None>>]

Globals == <<bot_definition, nodes_index, start_node_id, reservas_list>>

\* POST /api/start
StartResponse ==
    IF start_node_id \in DOMAIN nodes_index
    THEN PayloadResponse(nodes_index[start_node_id])
    ELSE ErrorResponse(500, ErrNodoInicial)

api_start ==
    /\ request' = [NoRequest EXCEPT !.op = "start"]
    /\ response' = StartResponse
    /\ UNCHANGED <<Globals, inflight, Script>>

\* GET /api/bot
api_bot ==
    /\ request' = [NoRequest EXCEPT !.op = "bot"]
    /\ response' = BotResponse
    /\ UNCHANGED <<Globals, inflight, Script>>

\* POST /api/step
StepResponse(current_node_id, option_id, user_input) ==
    IF ~Truthy(current_node_id) THEN ErrorResponse(400, ErrMissingNodeId)
    ELSE LET r == resolve_next_node(nodes_index, current_node_id, option_id,
                                    user_input)
         IN  IF r.raised = None THEN PayloadResponse(r.node)
             ELSE ErrorResponse(400, r.raised)

\* The node ids a client can name in a step request: the node it was just
\* shown, any id it read in the definition that /api/bot returned, the id of
\* the request it retries after an error, and no id at all otherwise.
KnownNodeIds ==
    IF response.body = "payload" THEN {response.payload.node_id}
    ELSE IF response.body = "bot_definition" THEN RequestNodeIds
    ELSE IF response.body = "error" /\ request.op = "step"
        THEN {request.node_id}
    ELSE {None}

api_step ==
    \E node_id \in KnownNodeIds, option_id \in RequestOptionIds,
       user_input \in UserInputs :
        /\ request' = [NoRequest EXCEPT !.op = "step", !.node_id = node_id,
                           !.option_id = option_id, !.user_input = user_input]
        /\ response' = StepResponse(node_id, option_id, user_input)
        /\ UNCHANGED <<Globals, inflight, Script>>

(***************************************************************************)
(* The dialogue: the state after the module is loaded with a definition    *)
(* (the reservation file is missing, so reservas_list is []), and the      *)
(* requests of the dialogue.                                               *)
(***************************************************************************)
Definitions ==
    [nodes : SeqsUpTo(Nodes, MaxNodes), start_node_id : StartIds]

Init ==
    /\ bot_definition \in Definitions
    /\ nodes_index = BuildIndex(bot_definition.nodes)
    /\ start_node_id = LoadStart(bot_definition)
    /\ reservas_list = <<>>
    /\ request = NoRequest
    /\ response = NoResponse
    /\ OneClient
    /\ ScriptNotRun

Next == api_start \/ api_bot \/ api_step

Spec == Init /\ [][Next]_vars
(***************************************************************************)
(* Strings of the reservation table and of the queries are sequences of    *)
(* characters.  The characters of the model: ASCII letters, the precomposed*)
(* letter a-acute, the combining acute accent, the trade mark sign, space, *)
(* full stop, hyphen and underscore.  NoString is None (a record without   *)
(* "nombre", a request without "q").                                       *)
(***************************************************************************)
NoString == <<None>>
AAcute == "a+acute"
CombiningAcute == "+acute"
TradeMark == "(TM)"

LowerLetters == {"a", "b", "c", "d", "l", "m", "n", "t", "u"}
UpperLetters == {"A", "B", "M", "N", "T"}

\* str.lower() of one character
Lower(c) ==
    CASE c = "A" -> "a"
      [] c = "B" -> "b"
      [] c = "M" -> "m"
      [] c = "N" -> "n"
      [] c = "T" -> "t"
      [] OTHER -> c

\* unicodedata.normalize("NFKD", c) of one character
Decompose(c) ==
    CASE c = AAcute -> <<"a", CombiningAcute>>
      [] c = TradeMark -> <<"T", "M">>
      [] OTHER -> <<c>>

\* unicodedata.combining(ch) != 0
IsCombining(c) == c = CombiningAcute
IsAlnum(c) == c \in LowerLetters \cup UpperLetters \cup {AAcute}
IsSpace(c) == c = " "

\* The code point order of the characters that a normalized name can hold.
CodePoint(c) ==
    CASE c = " " -> 32
      [] c = "-" -> 45
      [] c = "A" -> 65
      [] c = "B" -> 66
      [] c = "M" -> 77
      [] c = "N" -> 78
      [] c = "T" -> 84
      [] c = "_" -> 95
      [] c = "a" -> 97
      [] c = "b" -> 98
      [] c = "c" -> 99
      [] c = "d" -> 100
      [] c = "l" -> 108
      [] c = "m" -> 109
      [] c = "n" -> 110
      [] c = "t" -> 116
      [] c = "u" -> 117
      [] OTHER -> 200

\* The elements of s at the positions in keep, in order, from position i on.
RECURSIVE SelectPositions(_, _, _)
SelectPositions(s, keep, i) ==
    IF i > Len(s) THEN <<>>
    ELSE (IF i \in keep THEN <<s[i]>> ELSE <<>>) \o SelectPositions(s, keep, i + 1)

RECURSIVE Flatten(_)
Flatten(ss) == IF ss = <<>> THEN <<>> ELSE Head(ss) \o Flatten(Tail(ss))

\* s.strip()
Strip(s) ==
    LET solid == {i \in 1..Len(s) : ~IsSpace(s[i])}
    IN  IF solid = {} THEN <<>>
        ELSE SubSeq(s, CHOOSE i \in solid : \A j \in solid : i <= j,
                       CHOOSE i \in solid : \A j \in solid : j <= i)

\* ' '.join(s.split())
CollapseSpaces(s) ==
    SelectPositions(s,
        {i \in 1..Len(s) :
            \/ ~IsSpace(s[i])
            \/ /\ i > 1
               /\ ~IsSpace(s[i - 1])
               /\ \E j \in (i + 1)..Len(s) : ~IsSpace(s[j])},
        1)

_normalize_name(s) ==
    IF s = NoString \/ s = <<>> THEN <<>>
    ELSE LET stripped == Strip(s)
             lowered == [i \in 1..Len(stripped) |-> Lower(stripped[i])]
             nfkd == Flatten([i \in 1..Len(lowered) |-> Decompose(lowered[i])])
             base == SelectPositions(nfkd,
                         {i \in 1..Len(nfkd) : ~IsCombining(nfkd[i])}, 1)
             folded == [i \in 1..Len(base) |->
                          IF IsAlnum(base[i]) \/ IsSpace(base[i])
                                \/ base[i] \in {"-", "_"}
                          THEN base[i] ELSE " "]
         IN  CollapseSpaces(folded)

(***************************************************************************)
(* difflib.get_close_matches(word, possibilities, n, cutoff) as the search *)
(* calls it.  The strings are far shorter than 200 characters, so          *)
(* SequenceMatcher marks no character as junk or popular.                  *)
(***************************************************************************)
\* Length of the common run of a from i and of b from j.
RECURSIVE RunLength(_, _, _, _)
RunLength(a, b, i, j) ==
    IF i > Len(a) \/ j > Len(b) \/ a[i] # b[j] THEN 0
    ELSE 1 + RunLength(a, b, i + 1, j + 1)

\* The longest matching block given the run length size[<<i, j>>] of every
\* pair of positions: <<i, j, k>>, the block that starts earliest in a and,
\* of those, earliest in b; k = 0 when no character matches.
LongestBlock(size, k) ==
    LET longest == {p \in DOMAIN size : size[p] = k}
        first == CHOOSE p \in longest :
                     \A r \in longest :
                         p[1] < r[1] \/ (p[1] = r[1] /\ p[2] <= r[2])
    IN  <<first[1], first[2], k>>

MaxSize(size) ==
    CHOOSE k \in {size[p] : p \in DOMAIN size} : \A p \in DOMAIN size : size[p] <= k

\* SequenceMatcher.find_longest_match over all of two non-empty strings.
FindLongestMatch(a, b) ==
    With([p \in (1..Len(a)) \X (1..Len(b)) |-> RunLength(a, b, p[1], p[2])],
         LAMBDA size : LongestBlock(size, MaxSize(size)))

\* Sum of the sizes of SequenceMatcher.get_matching_blocks(): the longest
\* block m, then the blocks to its left and to its right.
RECURSIVE MatchedChars(_, _)
BlocksAround(a, b, m) ==
    IF m[3] = 0 THEN 0
    ELSE m[3] + MatchedChars(SubSeq(a, 1, m[1] - 1), SubSeq(b, 1, m[2] - 1))
              + MatchedChars(SubSeq(a, m[1] + m[3], Len(a)),
                             SubSeq(b, m[2] + m[3], Len(b)))

MatchedChars(a, b) ==
    IF Len(a) = 0 \/ Len(b) = 0 THEN 0
    ELSE With(FindLongestMatch(a, b), LAMBDA m : BlocksAround(a, b, m))

\* SequenceMatcher.ratio() as a fraction <<numerator, denominator>>:
\* 2.0 * matches / length, and 1.0 when both strings are empty.
Ratio(a, b) ==
    IF Len(a) + Len(b) = 0 THEN <<1, 1>>
    ELSE <<2 * MatchedChars(a, b), Len(a) + Len(b)>>

\* cutoff=0.6
CutoffNum == 6
CutoffDen == 10
AtLeastCutoff(r) == r[1] * CutoffDen >= CutoffNum * r[2]

RatioLess(r, t) == r[1] * t[2] < t[1] * r[2]

\* x < y for two strings, by code points
RECURSIVE StrLess(_, _)
StrLess(x, y) ==
    IF y = <<>> THEN FALSE
    ELSE IF x = <<>> THEN TRUE
    ELSE IF x[1] # y[1] THEN CodePoint(x[1]) < CodePoint(y[1])
    ELSE StrLess(Tail(x), Tail(y))

\* (score, x) <= (score', x') as tuples
ScoredLeq(r, x, t, y) ==
    \/ RatioLess(r, t)
    \/ ~RatioLess(t, r) /\ (x = y \/ StrLess(x, y))

\* heapq.nlargest(n, result): the n largest (score, x), largest first.
\* score[i] is the ratio of possibilities[i], kept the positions whose
\* ratio reaches the cutoff.  Equal pairs are equal strings, so the order
\* among them does not show.
Before(score, possibilities, j, i) ==
    \/ ~ScoredLeq(score[j], possibilities[j], score[i], possibilities[i])
    \/ /\ ScoredLeq(score[i], possibilities[i], score[j], possibilities[j])
       /\ j < i

NLargest(n, score, possibilities, kept) ==
    [r \in 1..(IF Cardinality(kept) < n THEN Cardinality(kept) ELSE n) |->
        possibilities[CHOOSE i \in kept :
            Cardinality({j \in kept : Before(score, possibilities, j, i)})
                = r - 1]]

Kept(score) == {i \in DOMAIN score : AtLeastCutoff(score[i])}

\* The quick_ratio and real_quick_ratio tests are upper bounds of ratio, so
\* a possibility is kept exactly when its ratio reaches the cutoff.
Scores(word, possibilities) ==
    [i \in 1..Len(possibilities) |-> Ratio(possibilities[i], word)]

BestOf(n, score, possibilities) ==
    NLargest(n, score, possibilities, Kept(score))

get_close_matches(word, possibilities, n) ==
    With(Scores(word, possibilities),
         LAMBDA score : BestOf(n, score, possibilities))

(***************************************************************************)
(* GET /api/reservas?q=...                                                 *)
(***************************************************************************)
\* seq[:n]
Take_NoLimit(seq, n) == seq

Take(seq, n) == SubSeq(seq, 1, IF Len(seq) < n THEN Len(seq) ELSE n)

\* [:5] of the results, and n=5 of get_close_matches
MaxResults == 5
FuzzyN == 5

\* nq in name, for two strings
Contains(name, nq) ==
    \E i \in 1..(Len(name) - Len(nq) + 1) :
        SubSeq(name, i, i + Len(nq) - 1) = nq

NormName(r) == _normalize_name(r.nombre)

FirstNamed_Last(table, names, m) ==
    LET hits == {i \in 1..Len(table) : names[i] = m}
    IN  IF hits = {} THEN <<>>
        ELSE <<table[CHOOSE i \in hits : \A j \in hits : j <= i]>>

\* The first record of the table whose normalized name (in names) is m.
FirstNamed(table, names, m) ==
    LET hits == {i \in 1..Len(table) : names[i] = m}
    IN  IF hits = {} THEN <<>>
        ELSE <<table[CHOOSE i \in hits : \A j \in hits : i <= j]>>

\* The loop over the matches of the fuzzy tier.
FuzzyResults(table, names, matches) ==
    Flatten([i \in 1..Len(matches) |-> FirstNamed(table, names, matches[i])])

SearchTiers_SubstringFirst(table, names, nq) ==
    LET exact == {i \in 1..Len(table) : names[i] = nq}
        contains == {i \in 1..Len(table) : Contains(names[i], nq)}
    IN  IF contains # {}
            THEN Take(SelectPositions(table, contains, 1), MaxResults)
        ELSE IF exact # {}
            THEN Take(SelectPositions(table, exact, 1), MaxResults)
        ELSE With(get_close_matches(nq, names, FuzzyN),
                  LAMBDA matches :
                      Take(FuzzyResults(table, names, matches), MaxResults))

\* The three tiers, given the normalized query nq and the normalized names
\* names[i] of the records.
SearchTiers(table, names, nq) ==
    LET exact == {i \in 1..Len(table) : names[i] = nq}
        contains == {i \in 1..Len(table) : Contains(names[i], nq)}
    IN  IF exact # {}
            THEN Take(SelectPositions(table, exact, 1), MaxResults)
        ELSE IF contains # {}
            THEN Take(SelectPositions(table, contains, 1), MaxResults)
        ELSE With(get_close_matches(nq, names, FuzzyN),
                  LAMBDA matches :
                      Take(FuzzyResults(table, names, matches), MaxResults))

NormNames(table) == [i \in 1..Len(table) |-> NormName(table[i])]

SearchStripped_NoBlankCheck(table, q) ==
    With(NormNames(table),
         LAMBDA names :
             With(_normalize_name(q),
                  LAMBDA nq : SearchTiers(table, names, nq)))

\* The search from "if not q" on, for the stripped q.
SearchStripped(table, q) ==
    IF q = <<>> THEN <<>>
    ELSE With(NormNames(table),
              LAMBDA names :
                  With(_normalize_name(q),
                       LAMBDA nq : SearchTiers(table, names, nq)))

SearchRecords(table, query) ==
    SearchStripped(table, Strip(IF query = NoString THEN <<>> ELSE query))

\* The queries of the model: no q, empty, blank, "ab", "B", "abd", ".", "d"
\* and the trade mark sign.
Queries ==
    {NoString, <<>>, <<" ">>, <<"a", "b">>, <<"B">>, <<"a", "b", "d">>,
     <<".">>, <<"d">>, <<TradeMark>>}

\* A search request arrives: the client sends q and waits for the answer.
SearchPending == request.op = "reservas" /\ response.body = "none"

search_request ==
    /\ ~SearchPending
    /\ \E q \in Queries :
          request' = [NoRequest EXCEPT !.op = "reservas", !.q = q]
    /\ response' = NoResponse
    /\ UNCHANGED <<Globals, inflight, Script>>

\* The handler answers the request.
api_reservas ==
    /\ SearchPending
    /\ response' = RecordsResponse(SearchRecords(reservas_list, request.q))
    /\ UNCHANGED <<Globals, request, inflight, Script>>

(***************************************************************************)
(* The search: the state after the module is loaded with a reservation     *)
(* table (and a one-node dialogue), and the search requests.  A record is  *)
(* its "nombre" and the rest of its fields, which tell the rows apart.     *)
(***************************************************************************)
MaxRecords == 6

\* The names of the model: no name, the empty name, "Ab", "a-acute b." and
\* "abc".
Names ==
    {NoString, <<>>, <<"A", "b">>, <<AAcute, "b", ".">>, <<"a", "b", "c">>}

Tables ==
    {[i \in 1..Len(names) |-> [nombre |-> names[i], fila |-> i]] :
        names \in SeqsUpTo(Names, MaxRecords)}

SearchDefinition ==
    [nodes |-> <<[id |-> "inicio_menu", type |-> "end", message |-> "hola",
                  options |-> <<>>, next_node_id |-> None]>>,
     start_node_id |-> None]

SearchInit ==
    /\ bot_definition = SearchDefinition
    /\ nodes_index = BuildIndex(bot_definition.nodes)
    /\ start_node_id = LoadStart(bot_definition)
    /\ reservas_list \in Tables
    /\ request = NoRequest
    /\ response = NoResponse
    /\ OneClient
    /\ ScriptNotRun

SearchNext == search_request \/ api_reservas

SearchSpec == SearchInit /\ [][SearchNext]_vars

(***************************************************************************)
(* Several conversations at once.  The development server of app.run       *)
(* serves each request in a thread of its own, so the requests of          *)
(* different clients overlap: a request is sent, and later its handler     *)
(* answers it, in any order among the conversations.  flask.request is     *)
(* local to the thread that serves the request.                            *)
(***************************************************************************)
MaxConversations == 2
Conversations == 1..MaxConversations

\* The requests of the conversations: steps from the two nodes, with and
\* without option, and searches.
ConcRequests ==
    {[NoRequest EXCEPT !.op = "step", !.node_id = n, !.option_id = o] :
        n \in NodeIds, o \in {None, "1"}}
    \cup {[NoRequest EXCEPT !.op = "reservas", !.q = q] :
            q \in {<<" ">>, <<"a", "b">>, <<"d">>}}

Idle == [request |-> NoRequest, response |-> NoResponse]

Pending(c) ==
    inflight[c].request.op # "none" /\ inflight[c].response.body = "none"

RequestOf_Shared(c) ==
    inflight[CHOOSE d \in Conversations :
                /\ inflight[d].request.op # "none"
                /\ \A e \in Conversations :
                      inflight[e].request.op # "none" => d <= e].request

\* request, in the handler that serves conversation c
RequestOf(c) == inflight[c].request

client_sends(c) ==
    /\ ~Pending(c)
    /\ \E r \in ConcRequests :
          inflight' = [inflight EXCEPT ![c] = [request |-> r,
                                               response |-> NoResponse]]
    /\ UNCHANGED <<Globals, request, response, Script>>

\* api_step in the thread of conversation c
thread_api_step(c) ==
    /\ Pending(c)
    /\ inflight[c].request.op = "step"
    /\ inflight' =
          [inflight EXCEPT ![c].response =
              StepResponse(RequestOf(c).node_id, RequestOf(c).option_id,
                           RequestOf(c).user_input)]
    /\ UNCHANGED <<Globals, request, response, Script>>

\* api_reservas in the thread of conversation c
thread_api_reservas(c) ==
    /\ Pending(c)
    /\ inflight[c].request.op = "reservas"
    /\ inflight' =
          [inflight EXCEPT ![c].response =
              RecordsResponse(SearchRecords(reservas_list, RequestOf(c).q))]
    /\ UNCHANGED <<Globals, request, response, Script>>

\* The definitions of the conversations: a menu "inicio_menu" of one option
\* and a node "B" of type input or end.
ConcDefinitions ==
    {[nodes |-> <<menu, b>>, start_node_id |-> None] :
        menu \in {n \in Nodes : /\ n.id = "inicio_menu"
                                /\ n.type = "menu"
                                /\ Len(n.options) = 1},
        b \in {n \in Nodes : n.id = "B" /\ n.type \in {"input", "end"}}}

\* Tables of one record.
ConcTables == {<<[nombre |-> name, fila |-> 1]>> : name \in Names}

ConcInit ==
    /\ bot_definition \in ConcDefinitions
    /\ nodes_index = BuildIndex(bot_definition.nodes)
    /\ start_node_id = LoadStart(bot_definition)
    /\ reservas_list \in ConcTables
    /\ request = NoRequest
    /\ response = NoResponse
    /\ inflight = [c \in Conversations |-> Idle]
    /\ ScriptNotRun

ConcNext ==
    \E c \in Conversations :
        \/ client_sends(c)
        \/ thread_api_step(c)
        \/ thread_api_reservas(c)

ConcSpec == ConcInit /\ [][ConcNext]_vars

(***************************************************************************)
(* fix_fill_reservas.py.  A value of a record of reservas_unificadas.json  *)
(* is a string, null (NoString), the token NaN that the file can hold      *)
(* though JSON has none, or nothing when the record lacks the key.  A      *)
(* record has its nombre, a field "area" that the script never fills, and  *)
(* the three fields that the mapping fills.                                *)
(***************************************************************************)
NaNLiteral == <<"<NaN>">>
Absent == <<"<absent>">>

\* isinstance(v, str)
IsStr(v) == v \notin {NoString, NaNLiteral, Absent}

\* text.replace("NaN", "null"), within one string of the text
RECURSIVE ReplaceNaN(_)
ReplaceNaN(s) ==
    IF Len(s) < 3 THEN s
    ELSE IF SubSeq(s, 1, 3) = <<"N", "a", "N">>
         THEN <<"n", "u", "l", "l">> \o ReplaceNaN(SubSeq(s, 4, Len(s)))
         ELSE <<s[1]>> \o ReplaceNaN(Tail(s))

\* A value of the file as json.loads reads it after the replacement.
LoadValue(v) ==
    IF v = NaNLiteral THEN NoString
    ELSE IF IsStr(v) THEN ReplaceNaN(v)
    ELSE v

LoadRecord(r) ==
    [nombre |-> LoadValue(r.nombre),
     area |-> LoadValue(r.area),
     Horarios_de_visita |-> LoadValue(r.Horarios_de_visita),
     Costo_de_ingreso |-> LoadValue(r.Costo_de_ingreso),
     Fuente |-> LoadValue(r.Fuente)]

\* records = json.loads(text.replace("NaN", "null"))
LoadRecords(file) == [i \in 1..Len(file) |-> LoadRecord(file[i])]

\* json.dumps(records, ensure_ascii=False, indent=2): a string is written as
\* it is, None as null, and a key that the record lacks is not written.
DumpValue(v) == IF v = NoString THEN NoString ELSE v

DumpRecord(r) ==
    [nombre |-> DumpValue(r.nombre),
     area |-> DumpValue(r.area),
     Horarios_de_visita |-> DumpValue(r.Horarios_de_visita),
     Costo_de_ingreso |-> DumpValue(r.Costo_de_ingreso),
     Fuente |-> DumpValue(r.Fuente)]

DumpRecords(rs) == [i \in 1..Len(rs) |-> DumpRecord(rs[i])]

\* The mapping, in the order of the dict literal: two of its entries, here
\* with the keys "Ab" and "abc".  Every entry of the mapping has the same
\* three fields.
mapping ==
    <<[key |-> <<"A", "b">>,
       fields |-> [Horarios_de_visita |-> <<"a">>,
                   Costo_de_ingreso |-> <<"b">>,
                   Fuente |-> <<"c">>]],
      [key |-> <<"a", "b", "c">>,
       fields |-> [Horarios_de_visita |-> <<"t">>,
                   Costo_de_ingreso |-> <<"m">>,
                   Fuente |-> <<"u">>]]>>

EnrichmentFields == {"Horarios_de_visita", "Costo_de_ingreso", "Fuente"}

\* re.sub(r"\s+", " ", s): every run of whitespace becomes one space
CollapseRuns(s) ==
    SelectPositions(s,
        {i \in 1..Len(s) : ~IsSpace(s[i]) \/ i = 1 \/ ~IsSpace(s[i - 1])}, 1)

\* The names that normalize_name takes for no name
SpecialNames ==
    {<<"n", "a", "n">>, <<"n", "o", "n", "e">>, <<"n", "u", "l", "l">>, <<>>}

\* normalize_name of fix_fill_reservas.py
normalize_name(s) ==
    IF ~IsStr(s) THEN <<>>
    ELSE LET stripped == Strip(s)
             lowered == [i \in 1..Len(stripped) |-> Lower(stripped[i])]
             nfkd == Flatten([i \in 1..Len(stripped) |-> Decompose(stripped[i])])
             base == SelectPositions(nfkd,
                         {i \in 1..Len(nfkd) : ~IsCombining(nfkd[i])}, 1)
             folded == [i \in 1..Len(base) |->
                          IF IsAlnum(base[i]) \/ base[i] = "_"
                                \/ IsSpace(base[i]) \/ base[i] = "-"
                          THEN base[i] ELSE " "]
             collapsed == CollapseRuns(folded)
         IN  IF lowered \in SpecialNames THEN <<>>
             ELSE Strip([i \in 1..Len(collapsed) |-> Lower(collapsed[i])])

\* cutoff=0.75
ScriptCutoffNum == 75
ScriptCutoffDen == 100

\* difflib.get_close_matches(word, possibilities, n=n, cutoff=num/den)
close_matches(word, possibilities, n, num, den) ==
    With(Scores(word, possibilities),
         LAMBDA score :
             NLargest(n, score, possibilities,
                      {i \in DOMAIN score : score[i][1] * den >= num * score[i][2]}))

\* norm_to_key: the normalized keys in the order of their first insertion,
\* and for a normalized key the mapping key that was stored last.
MappingNorms == [i \in 1..Len(mapping) |-> normalize_name(mapping[i].key)]

NormKeys ==
    SelectPositions(MappingNorms,
        {i \in 1..Len(mapping) :
            /\ MappingNorms[i] # <<>>
            /\ \A j \in 1..(i - 1) : MappingNorms[j] # MappingNorms[i]}, 1)

KeyOfNorm(nk) ==
    LET hits == {i \in 1..Len(mapping) : MappingNorms[i] = nk}
    IN  mapping[CHOOSE i \in hits : \A j \in hits : j <= i].key

\* mapping[key]
EntryOf(key) ==
    LET hits == {i \in 1..Len(mapping) : mapping[i].key = key}
    IN  mapping[CHOOSE i \in hits : \A j \in hits : j <= i].fields

NoMatch == [tier |-> "none", key |-> NoString]

\* The third attempt, for a name that normalizes to nname
FuzzyKey(nname) ==
    LET close == close_matches(nname, NormKeys, 1,
                               ScriptCutoffNum, ScriptCutoffDen)
    IN  IF close # <<>> THEN [tier |-> "fuzzy", key |-> KeyOfNorm(close[1])]
        ELSE NoMatch

\* The attempt of the loop that matches the name, and the mapping key found.
MatchedKey(name) ==
    IF ~IsStr(name) THEN NoMatch
    ELSE IF \E i \in 1..Len(mapping) : mapping[i].key = name
        THEN [tier |-> "exact", key |-> name]
    ELSE LET nname == normalize_name(name)
         IN  IF nname = <<>> THEN NoMatch
             ELSE IF \E i \in 1..Len(NormKeys) : NormKeys[i] = nname
                 THEN [tier |-> "normalized", key |-> KeyOfNorm(nname)]
             ELSE FuzzyKey(nname)

\* for kk, vv in vals.items(): rec[kk] = vv
Fill(rec, vals) ==
    [rec EXCEPT !.Horarios_de_visita = vals.Horarios_de_visita,
                !.Costo_de_ingreso = vals.Costo_de_ingreso,
                !.Fuente = vals.Fuente]

\* rec.get("nombre")
NombreOf(rec) == IF rec.nombre = Absent THEN NoString ELSE rec.nombre

Backend == <<Globals, request, response, inflight>>

\* The file is read.
load_records ==
    /\ pc = "start"
    /\ records' = LoadRecords(json_file)
    /\ cursor' = 1
    /\ pc' = IF Len(json_file) = 0 THEN "save" ELSE "loop"
    /\ UNCHANGED <<json_file, updated, not_found, fuzzy_matches, Backend>>

\* One turn of "for rec in records".
unify_record ==
    /\ pc = "loop"
    /\ LET rec == records[cursor]
           name == NombreOf(rec)
           match == MatchedKey(name)
       IN  IF match.tier = "none"
           THEN /\ not_found' = Append(not_found, name)
                /\ UNCHANGED <<records, updated, fuzzy_matches>>
           ELSE /\ records' =
                      [records EXCEPT ![cursor] = Fill(rec, EntryOf(match.key))]
                /\ updated' = updated + 1
                /\ fuzzy_matches' =
                      IF match.tier = "fuzzy"
                      THEN Append(fuzzy_matches, <<name, match.key>>)
                      ELSE fuzzy_matches
                /\ UNCHANGED not_found
    /\ cursor' = cursor + 1
    /\ pc' = IF cursor = Len(records) THEN "save" ELSE "loop"
    /\ UNCHANGED <<json_file, Backend>>

\* The records are written back to the file (and, in the same order, to the
\* CSV file, which the model leaves out).
save_records ==
    /\ pc = "save"
    /\ json_file' = DumpRecords(records)
    /\ pc' = "done"
    /\ UNCHANGED <<records, cursor, updated, not_found, fuzzy_matches, Backend>>

MaxFileRecords == 2

\* The names of the records: no key, NaN, "Ab", "a-acute b.", "abd", "abc.",
\* "d" and the string "NaN".
ScriptNames ==
    {Absent, NaNLiteral, <<"A", "b">>, <<AAcute, "b", ".">>,
     <<"a", "b", "d">>, <<"a", "b", "c", ".">>, <<"d">>, <<"N", "a", "N">>}

FileRecords ==
    {[nombre |-> name, area |-> area, Horarios_de_visita |-> Absent,
      Costo_de_ingreso |-> Absent, Fuente |-> fuente] :
        name \in ScriptNames,
        area \in {Absent, <<"d">>, <<"B", "a", "N", "a", "N", "a">>},
        fuente \in {Absent, <<"d">>}}

Files == SeqsUpTo(FileRecords, MaxFileRecords)

UnifyInit ==
    /\ bot_definition = SearchDefinition
    /\ nodes_index = BuildIndex(bot_definition.nodes)
    /\ start_node_id = LoadStart(bot_definition)
    /\ reservas_list = <<>>
    /\ request = NoRequest
    /\ response = NoResponse
    /\ OneClient
    /\ json_file \in Files
    /\ records = <<>>
    /\ cursor = 0
    /\ updated = 0
    /\ not_found = <<>>
    /\ fuzzy_matches = <<>>
    /\ pc = "start"

UnifyNext == load_records \/ unify_record \/ save_records

UnifySpec == UnifyInit /\ [][UnifyNext]_vars

(***************************************************************************)
(* Properties of the dialogue engine.                                      *)
(***************************************************************************)
MenuTypes == {"menu", "response"}
KnownTypes == {"menu", "response", "input", "end"}

\* The request served last was a step from a node of the graph.
StepFromNode == request.op = "step" /\ request.node_id \in DOMAIN nodes_index
RequestNode == nodes_index[request.node_id]

\* resolve_next_node of the loaded graph.
Resolve(id, option_id, user_input) ==
    resolve_next_node(nodes_index, id, option_id, user_input)

\* Position i holds the first option of the sequence whose id is option_id.
IsFirstWithId(options, i, option_id) ==
    /\ i \in 1..Len(options)
    /\ options[i].id = option_id
    /\ \A j \in 1..(i - 1) : options[j].id # option_id

HasOptionId(options, option_id) ==
    \E i \in 1..Len(options) : options[i].id = option_id

\* The node a step is at when it leaves node `id`, as the client sees it.
ErrorIs(msgs) ==
    /\ response.status = 400
    /\ response.body = "error"
    /\ response.error \in msgs
    /\ response.payload = NoPayload

\* C1: from a menu or response node and a non-empty option_id, the step goes
\* to the node named by the next_node_id of the first option with that id,
\* when that id is non-empty and in the graph; a later option with the same
\* id is not used.
C1_Case(node, i, option_id) ==
    /\ node.type \in MenuTypes
    /\ Truthy(option_id)
    /\ IsFirstWithId(node.options, i, option_id)
    /\ Truthy(node.options[i].next_node_id)
    /\ node.options[i].next_node_id \in DOMAIN nodes_index

C1_FirstMatchingOptionWins ==
    /\ \A id \in DOMAIN nodes_index, option_id \in RequestOptionIds,
          user_input \in UserInputs :
          \A i \in 1..Len(nodes_index[id].options) :
              C1_Case(nodes_index[id], i, option_id) =>
                  Resolve(id, option_id, user_input) =
                      Returns(nodes_index[nodes_index[id].options[i].next_node_id])
    /\ StepFromNode =>
          \A i \in 1..Len(RequestNode.options) :
              C1_Case(RequestNode, i, request.option_id) =>
                  response = PayloadResponse(
                      nodes_index[RequestNode.options[i].next_node_id])

\* A step chose an option id that two options of the node carry with
\* different targets, and it was answered with the first one's node.
C1_Witness ==
    /\ StepFromNode
    /\ Len(RequestNode.options) = 2
    /\ C1_Case(RequestNode, 1, request.option_id)
    /\ RequestNode.options[2].id = request.option_id
    /\ RequestNode.options[2].next_node_id # RequestNode.options[1].next_node_id
    /\ response.status = 200
    /\ response.payload.node_id = RequestNode.options[1].next_node_id
    /\ response.payload.node_id # request.node_id

\* C2: from a node of type end every step returns that node, whatever
\* option_id and user_input are, and signals no error; a conversation that
\* was shown an end node is shown the same node by every further step.
C2_EndState ==
    /\ \A id \in DOMAIN nodes_index :
          nodes_index[id].type = "end" =>
              \A option_id \in RequestOptionIds, user_input \in UserInputs :
                  Resolve(id, option_id, user_input) = Returns(nodes_index[id])
    /\ (StepFromNode /\ RequestNode.type = "end") =>
          response = PayloadResponse(RequestNode)

C2_StepFromShownEnd ==
    /\ response.body = "payload"
    /\ response.payload.node_id \in DOMAIN nodes_index
    /\ nodes_index[response.payload.node_id].type = "end"
    /\ request'.op = "step"
    /\ request'.node_id = response.payload.node_id

C2_EndIsAbsorbing ==
    /\ []C2_EndState
    /\ [][C2_StepFromShownEnd => response' = response]_vars

\* A step from an end node that has a next_node_id in the graph, sent with
\* an option id and a text, was answered with the end node itself.
C2_Witness ==
    /\ StepFromNode
    /\ RequestNode.type = "end"
    /\ RequestNode.next_node_id \in DOMAIN nodes_index
    /\ RequestNode.next_node_id # request.node_id
    /\ request.option_id = "1"
    /\ request.user_input = "texto"
    /\ response.status = 200
    /\ response.payload.node_id = request.node_id
    /\ response.payload.is_end

\* A node the conversation can never leave: every step from it returns it.
Terminal(id) ==
    \A option_id \in RequestOptionIds, user_input \in UserInputs :
        Resolve(id, option_id, user_input) = Returns(nodes_index[id])

\* C3 as stated: a node from which every step returns the node itself is a
\* node of type end.
C3_OnlyEndIsTerminal ==
    \A id \in DOMAIN nodes_index : Terminal(id) => nodes_index[id].type = "end"

\* C3 as amended: the nodes from which every step returns the node itself
\* are the end nodes, the input nodes whose non-empty next_node_id is their
\* own id, and the nodes of any other type but menu and response whose
\* next_node_id is their own id or no node id of the graph; a menu or
\* response node is never such a node.
C3_TerminalNodes ==
    \A id \in DOMAIN nodes_index :
        LET node == nodes_index[id]
        IN  Terminal(id) <=>
                \/ node.type = "end"
                \/ /\ node.type = "input"
                   /\ Truthy(node.next_node_id)
                   /\ node.next_node_id = id
                \/ /\ node.type \notin KnownTypes
                   /\ \/ node.next_node_id = id
                      \/ node.next_node_id \notin DOMAIN nodes_index

\* A step from a node of an unknown type with a dangling next_node_id was
\* answered with that same node: the conversation cannot leave it.
C3_Witness ==
    /\ StepFromNode
    /\ RequestNode.type \notin KnownTypes
    /\ RequestNode.next_node_id = "Z"
    /\ Terminal(request.node_id)
    /\ response = PayloadResponse(RequestNode)

\* C4: from a menu or response node a step without option_id (absent or
\* empty) fails with the missing-option_id error and returns no node,
\* whatever the options of the node and the user_input.
C4_MissingOptionIdFails ==
    /\ \A id \in DOMAIN nodes_index, option_id \in RequestOptionIds,
          user_input \in UserInputs :
          (nodes_index[id].type \in MenuTypes /\ ~Truthy(option_id)) =>
              Resolve(id, option_id, user_input) = Raises(ErrFaltaOptionId)
    /\ (StepFromNode /\ RequestNode.type \in MenuTypes
            /\ ~Truthy(request.option_id)) =>
          ErrorIs({ErrFaltaOptionId})

\* A step from a menu or response node that has a usable option, sent with
\* a text but an empty option_id, was refused.
C4_Witness ==
    /\ StepFromNode
    /\ RequestNode.type \in MenuTypes
    /\ \E i \in 1..Len(RequestNode.options) : C1_Case(RequestNode, i, "1")
    /\ request.option_id = ""
    /\ request.user_input = "texto"
    /\ ErrorIs({ErrFaltaOptionId})

\* C5: from a menu or response node and a non-empty option_id the step
\* fails with a not-found error and returns no node when no option has the
\* id, when the first option with the id has an empty or missing
\* next_node_id, and when that next_node_id is no node id of the graph.
C5_Broken(node, option_id) ==
    \/ ~HasOptionId(node.options, option_id)
    \/ \E i \in 1..Len(node.options) :
          /\ IsFirstWithId(node.options, i, option_id)
          /\ ~Truthy(node.options[i].next_node_id)

C5_Dangling(node, option_id) ==
    \E i \in 1..Len(node.options) :
        /\ IsFirstWithId(node.options, i, option_id)
        /\ Truthy(node.options[i].next_node_id)
        /\ node.options[i].next_node_id \notin DOMAIN nodes_index

C5_BrokenReferenceFails ==
    /\ \A id \in DOMAIN nodes_index, option_id \in RequestOptionIds,
          user_input \in UserInputs :
          (nodes_index[id].type \in MenuTypes /\ Truthy(option_id)) =>
              /\ C5_Broken(nodes_index[id], option_id) =>
                    Resolve(id, option_id, user_input) = Raises(ErrOptionNoExiste)
              /\ C5_Dangling(nodes_index[id], option_id) =>
                    Resolve(id, option_id, user_input) = Raises(ErrNextNoExiste)
    /\ (StepFromNode /\ RequestNode.type \in MenuTypes
            /\ Truthy(request.option_id)) =>
          /\ C5_Broken(RequestNode, request.option_id) =>
                ErrorIs({ErrOptionNoExiste})
          /\ C5_Dangling(RequestNode, request.option_id) =>
                ErrorIs({ErrNextNoExiste})

\* A step chose an option id whose first option has no next_node_id while a
\* later option of the same id names a node of the graph, and it failed.
C5_Witness ==
    /\ StepFromNode
    /\ RequestNode.type \in MenuTypes
    /\ Len(RequestNode.options) = 2
    /\ RequestNode.options[1].id = request.option_id
    /\ RequestNode.options[2].id = request.option_id
    /\ RequestNode.options[1].next_node_id = None
    /\ RequestNode.options[2].next_node_id \in DOMAIN nodes_index
    /\ ErrorIs({ErrOptionNoExiste})

\* C6: from an input node the step returns the node named by the node's own
\* next_node_id when that id is non-empty and in the graph, and fails with a
\* configuration error otherwise, the same for every option_id and
\* user_input.
C6_Expected(node) ==
    IF ~Truthy(node.next_node_id) THEN Raises(ErrInputSinNext)
    ELSE IF node.next_node_id \notin DOMAIN nodes_index
        THEN Raises(ErrNextNoExiste)
    ELSE Returns(nodes_index[node.next_node_id])

C6_InputFollowsOwnNext ==
    /\ \A id \in DOMAIN nodes_index, option_id \in RequestOptionIds,
          user_input \in UserInputs :
          nodes_index[id].type = "input" =>
              Resolve(id, option_id, user_input) = C6_Expected(nodes_index[id])
    /\ (StepFromNode /\ RequestNode.type = "input") =>
          IF C6_Expected(RequestNode).raised = None
          THEN response = PayloadResponse(nodes_index[RequestNode.next_node_id])
          ELSE ErrorIs({C6_Expected(RequestNode).raised})

\* A step from an input node whose next_node_id names another node, sent
\* with an option id and no text, was answered with that node.
C6_Witness ==
    /\ StepFromNode
    /\ RequestNode.type = "input"
    /\ RequestNode.next_node_id \in DOMAIN nodes_index
    /\ RequestNode.next_node_id # request.node_id
    /\ request.option_id = "2"
    /\ request.user_input = None
    /\ response.status = 200
    /\ response.payload.node_id = RequestNode.next_node_id

\* C7: from a node of any type but menu, response, input and end the step
\* never fails: it returns the node named by the node's next_node_id when
\* that id is in the graph and the node itself otherwise, for every
\* option_id and user_input.
C7_Expected(node) ==
    IF node.next_node_id \in DOMAIN nodes_index
    THEN nodes_index[node.next_node_id]
    ELSE node

C7_FallbackNeverFails ==
    /\ \A id \in DOMAIN nodes_index, option_id \in RequestOptionIds,
          user_input \in UserInputs :
          nodes_index[id].type \notin KnownTypes =>
              Resolve(id, option_id, user_input) =
                  Returns(C7_Expected(nodes_index[id]))
    /\ (StepFromNode /\ RequestNode.type \notin KnownTypes) =>
          response = PayloadResponse(C7_Expected(RequestNode))

\* A step from a node of an unknown type whose next_node_id names another
\* node of the graph was answered with that node.
C7_Witness ==
    /\ StepFromNode
    /\ RequestNode.type = "otro"
    /\ RequestNode.next_node_id \in DOMAIN nodes_index
    /\ RequestNode.next_node_id # request.node_id
    /\ response.status = 200
    /\ response.payload.node_id = RequestNode.next_node_id

\* C8 as stated: loading a definition whose start node is missing fails, so
\* no start or step request is answered with a node by a graph that lacks
\* its start node.
C8_NoRequestWithoutStartNode ==
    (request.op \in {"start", "step"} /\ response.status = 200) =>
        start_node_id \in DOMAIN nodes_index

\* C8 as amended: loading does not check the start node; start_node_id is
\* the definition's field or "inicio_menu" when the field is absent, and a
\* start request is answered with the payload of that node when the graph
\* has it and with the error 500 "Nodo inicial no encontrado" otherwise.
C8_StartNodeCheckedPerRequest ==
    /\ start_node_id =
          IF bot_definition.start_node_id = None THEN "inicio_menu"
          ELSE bot_definition.start_node_id
    /\ request.op = "start" =>
          IF start_node_id \in DOMAIN nodes_index
          THEN response = PayloadResponse(nodes_index[start_node_id])
          ELSE /\ response.status = 500
               /\ response.body = "error"
               /\ response.error = ErrNodoInicial
               /\ response.payload = NoPayload

\* A definition without start_node_id and without a node "inicio_menu" was
\* loaded, and a start request was refused.
C8_Witness ==
    /\ bot_definition.start_node_id = None
    /\ Len(bot_definition.nodes) > 0
    /\ start_node_id \notin DOMAIN nodes_index
    /\ request.op = "start"
    /\ response.status = 500

\* C9 as stated: of two nodes with the same id the graph holds the one that
\* comes first in the definition's nodes sequence.
C9_FirstLoadedWins ==
    \A i \in 1..Len(bot_definition.nodes) :
        (\A j \in 1..(i - 1) :
            bot_definition.nodes[j].id # bot_definition.nodes[i].id) =>
            nodes_index[bot_definition.nodes[i].id] = bot_definition.nodes[i]

\* C9 as amended: of two nodes with the same id the graph holds the one that
\* comes last in the definition's nodes sequence, and the start request and
\* the steps are served from that one.
C9_LastLoadedWins ==
    /\ DOMAIN nodes_index =
          {bot_definition.nodes[i].id : i \in 1..Len(bot_definition.nodes)}
    /\ \A i \in 1..Len(bot_definition.nodes) :
          (\A j \in (i + 1)..Len(bot_definition.nodes) :
              bot_definition.nodes[j].id # bot_definition.nodes[i].id) =>
              /\ nodes_index[bot_definition.nodes[i].id] = bot_definition.nodes[i]
              /\ (request.op = "start"
                      /\ start_node_id = bot_definition.nodes[i].id) =>
                    response = PayloadResponse(bot_definition.nodes[i])
              /\ (request.op = "step"
                      /\ request.node_id = bot_definition.nodes[i].id
                      /\ bot_definition.nodes[i].type = "end") =>
                    response = PayloadResponse(bot_definition.nodes[i])

\* A definition with two nodes of one id, the first an input node and the
\* second an end node, was loaded, and the start request showed the second.
C9_Witness ==
    /\ Len(bot_definition.nodes) = 2
    /\ bot_definition.nodes[1].id = bot_definition.nodes[2].id
    /\ bot_definition.nodes[1].type = "input"
    /\ bot_definition.nodes[2].type = "end"
    /\ request.op = "start"
    /\ response = PayloadResponse(bot_definition.nodes[2])
    /\ response # PayloadResponse(bot_definition.nodes[1])
\* The node that the payload of the response was built from.
PayloadShown == response.body = "payload"
ShownNode == nodes_index[response.payload.node_id]

\* The id, the flags and the options of a payload built from node; the
\* graph index is still the one that was loaded.
C16_FlagsAndOptions(node, payload) ==
    /\ payload.node_id = node.id
    /\ payload.expects_input = (node.type = "input")
    /\ payload.is_end = (node.type = "end")
    /\ Len(payload.options) = Len(node.options)
    /\ \A i \in 1..Len(node.options) :
          /\ DOMAIN payload.options[i] = {"id", "label"}
          /\ payload.options[i].id = node.options[i].id
    /\ nodes_index = BuildIndex(bot_definition.nodes)

\* C16 as the spec states it: the payload carries the node's own id, type
\* and message and the options' own labels (nothing where the node has
\* none), with the two flags and the option order.
C16_PayloadCarriesNodeFields ==
    PayloadShown =>
        /\ response.status = 200
        /\ response.payload.node_id \in DOMAIN nodes_index
        /\ C16_FlagsAndOptions(ShownNode, response.payload)
        /\ response.payload.type = ShownNode.type
        /\ response.payload.message = ShownNode.message
        /\ \A i \in 1..Len(ShownNode.options) :
              response.payload.options[i].label = ShownNode.options[i].label

\* C16, amended: every payload sent is built without error from a node of
\* the graph, which it leaves unchanged; it has expects_input true exactly
\* when the node's type is input and is_end true exactly when it is end,
\* carries the node's id, its type ("response" when the node has none) and
\* its message ("" when the node has none), and lists the node's options in
\* order as {id, label}, the label being "Opcion" when the option has none.
C16_PayloadWithDefaults ==
    PayloadShown =>
        /\ response.status = 200
        /\ response.payload.node_id \in DOMAIN nodes_index
        /\ C16_FlagsAndOptions(ShownNode, response.payload)
        /\ response.payload.type =
              (IF ShownNode.type = None THEN "response" ELSE ShownNode.type)
        /\ response.payload.message =
              (IF ShownNode.message = None THEN "" ELSE ShownNode.message)
        /\ \A i \in 1..Len(ShownNode.options) :
              response.payload.options[i].label =
                  (IF ShownNode.options[i].label = None THEN "Opcion"
                   ELSE ShownNode.options[i].label)

\* A step reached an input node from a menu of two options, the second
\* without label: the payload shown has expects_input and no option, and the
\* payload of the menu lists the two options in order, the second with the
\* default label.
C16_Witness ==
    /\ PayloadShown
    /\ StepFromNode
    /\ RequestNode.type = "menu"
    /\ Len(RequestNode.options) = 2
    /\ RequestNode.options[2].label = None
    /\ node_to_payload(RequestNode).options =
          <<[id |-> "1", label |-> "Ir"], [id |-> "2", label |-> "Opcion"]>>
    /\ ~node_to_payload(RequestNode).expects_input
    /\ ShownNode.type = "input"
    /\ response.payload.type = "input"
    /\ response.payload.expects_input
    /\ ~response.payload.is_end
    /\ response.payload.options = <<>>

\* The answer to a step from node, were the node of the given type.
RuleResponse(type, node, option_id) ==
    LET r == IF type \in MenuTypes
                 THEN MenuBranch(nodes_index, node, option_id)
             ELSE IF type = "input" THEN InputBranch(nodes_index, node)
             ELSE IF type = "end" THEN EndBranch(nodes_index, node)
             ELSE FallbackBranch(nodes_index, node)
    IN  IF r.raised = None THEN PayloadResponse(r.node)
        ELSE ErrorResponse(400, r.raised)

\* The client steps from the node it was just shown.
StepFromShown ==
    /\ PayloadShown
    /\ request'.op = "step"
    /\ request'.node_id = response.payload.node_id

\* C18: a step from the node just shown is answered by the transition rule
\* of the type that the payload showed, and the flags of the payload name
\* that rule: a node shown as response is stepped with the menu/response
\* rule, whether or not the node has a type field.
C18_ShownTypeIsRoutedType ==
    [][StepFromShown =>
          /\ response' = RuleResponse(response.payload.type, ShownNode,
                                      request'.option_id)
          /\ response.payload.expects_input = (response.payload.type = "input")
          /\ response.payload.is_end = (response.payload.type = "end")]_vars

(***************************************************************************)
(* Properties of the search.                                               *)
(***************************************************************************)
\* C10: a search returns at most 5 records, for every query and table and
\* whichever of the exact, substring and fuzzy tiers produces the result.
SearchAnswered == request.op = "reservas" /\ response.body # "none"

C10_AtMostFiveRecords ==
    SearchAnswered =>
        /\ response.status = 200
        /\ response.body = "records"
        /\ Len(response.records) <= 5

\* A table of six records named "ab" after normalization: the query "abd",
\* which only the fuzzy tier answers, got five records, and so do "ab" by
\* the exact tier and "B" by the substring tier.
C10_Witness ==
    /\ Len(reservas_list) = 6
    /\ \A i \in 1..6 : NormName(reservas_list[i]) = <<"a", "b">>
    /\ SearchAnswered
    /\ request.q = <<"a", "b", "d">>
    /\ ~Contains(<<"a", "b">>, _normalize_name(request.q))
    /\ Len(response.records) = 5
    /\ Len(SearchRecords(reservas_list, <<"a", "b">>)) = 5
    /\ _normalize_name(<<"B">>) # <<"a", "b">>
    /\ Contains(<<"a", "b">>, _normalize_name(<<"B">>))
    /\ Len(SearchRecords(reservas_list, <<"B">>)) = 5

\* The text of the query of the request ("" when q is not sent), and the
\* queries that the search answers empty at once.
QueryText == IF request.q = NoString THEN <<>> ELSE request.q
BlankQuery == Strip(QueryText) = <<>>
RequestNq == _normalize_name(Strip(QueryText))

\* The positions of the table whose normalized name is nq, or contains nq.
ExactHits(nq) ==
    {i \in 1..Len(reservas_list) : NormName(reservas_list[i]) = nq}
SubstringHits(nq) ==
    {i \in 1..Len(reservas_list) : Contains(NormName(reservas_list[i]), nq)}

\* The first five records at the positions hits, in table order.
FirstFive(hits) ==
    [k \in 1..(IF Cardinality(hits) < 5 THEN Cardinality(hits) ELSE 5) |->
        reservas_list[CHOOSE i \in hits :
                          Cardinality({j \in hits : j < i}) = k - 1]]

\* C11: the tiers are tried in order and never mixed.  For a query that is
\* not blank: if some record's normalized nombre equals the normalized query,
\* the result is exactly the first up-to-5 such records in table order;
\* otherwise, if some record's normalized nombre contains the normalized
\* query, the result is exactly the first up-to-5 such records in table
\* order; otherwise no returned record is an exact or a substring hit.
C11_TiersInOrder ==
    (SearchAnswered /\ ~BlankQuery) =>
        LET exact == ExactHits(RequestNq)
            contains == SubstringHits(RequestNq)
        IN  /\ exact # {} => response.records = FirstFive(exact)
            /\ (exact = {} /\ contains # {}) =>
                  response.records = FirstFive(contains)
            /\ (exact = {} /\ contains = {}) =>
                  \A k \in 1..Len(response.records) :
                      ~Contains(NormName(response.records[k]), RequestNq)

\* The table "abc", "Ab", "a-acute b." and the query "ab": the first record
\* contains the query, the other two equal it after normalization; the
\* answer is the second and the third record.
C11_Witness ==
    /\ SearchAnswered
    /\ request.q = <<"a", "b">>
    /\ Len(reservas_list) = 3
    /\ reservas_list[1].nombre = <<"a", "b", "c">>
    /\ reservas_list[2].nombre = <<"A", "b">>
    /\ reservas_list[3].nombre = <<AAcute, "b", ".">>
    /\ SubstringHits(RequestNq) = {1, 2, 3}
    /\ ExactHits(RequestNq) = {2, 3}
    /\ response.records = <<reservas_list[2], reservas_list[3]>>

\* The fuzzy tier answers: the query is not blank and no record is an exact
\* or a substring hit.
FuzzyTier ==
    /\ SearchAnswered
    /\ ~BlankQuery
    /\ ExactHits(RequestNq) = {}
    /\ SubstringHits(RequestNq) = {}

\* C12: in the fuzzy tier the k-th record of the result is the first record
\* in table order whose normalized nombre is the k-th candidate returned by
\* the matcher (n=5, cutoff 0.6); a later record of the same normalized
\* nombre is never returned.
C12_FuzzyResolvesToFirstRecord ==
    FuzzyTier =>
        LET names == NormNames(reservas_list)
            matches == get_close_matches(RequestNq, names, 5)
        IN  /\ Len(response.records) = Len(matches)
            /\ Len(matches) <= 5
            /\ \A k \in 1..Len(matches) :
                  /\ NormName(response.records[k]) = matches[k]
                  /\ \E i \in 1..Len(reservas_list) :
                        /\ response.records[k] = reservas_list[i]
                        /\ \A j \in 1..(i - 1) : names[j] # matches[k]
                  /\ \A j \in 1..Len(reservas_list) :
                        (names[j] = matches[k] /\ j # response.records[k].fila)
                            => response.records[k].fila < j

\* The table "abc", "Ab", "a-acute b." and the query "abd": the matcher
\* ranks "ab" (twice) before "abc"; both "ab" resolve to the second record,
\* never to the third.
C12_Witness ==
    /\ FuzzyTier
    /\ request.q = <<"a", "b", "d">>
    /\ Len(reservas_list) = 3
    /\ NormNames(reservas_list) = << <<"a", "b", "c">>, <<"a", "b">>, <<"a", "b">> >>
    /\ reservas_list[2] # reservas_list[3]
    /\ response.records =
          <<reservas_list[2], reservas_list[2], reservas_list[1]>>

\* C13: an empty or whitespace-only query (or no q at all) is answered with
\* an empty sequence, without error, for every table.
C13_BlankQueryReturnsNothing ==
    (SearchAnswered /\ BlankQuery) =>
        /\ response.status = 200
        /\ response.body = "records"
        /\ response.error = None
        /\ response.records = <<>>

\* A whitespace-only query answered with no record, on a table that holds a
\* record without nombre, a record with the empty nombre and a named one.
C13_Witness ==
    /\ SearchAnswered
    /\ request.q = <<" ">>
    /\ \E i \in 1..Len(reservas_list) : reservas_list[i].nombre = NoString
    /\ \E i \in 1..Len(reservas_list) : reservas_list[i].nombre = <<>>
    /\ \E i \in 1..Len(reservas_list) : NormName(reservas_list[i]) # <<>>
    /\ response.status = 200
    /\ response.records = <<>>

\* The strings that the answered search has normalized: the query and the
\* nombre of every record.
NormalizedInputs ==
    {QueryText} \cup
        {reservas_list[i].nombre : i \in 1..Len(reservas_list)}

\* C14: _normalize_name is idempotent: normalizing a normalized string
\* changes nothing.
C14_NormalizeIdempotent ==
    SearchAnswered =>
        \A x \in NormalizedInputs :
            _normalize_name(_normalize_name(x)) = _normalize_name(x)

\* C19: a query that is not blank but normalizes to the empty string is
\* answered like an empty query, with no record.
C19_EmptyNormalizedQueryReturnsNothing ==
    (SearchAnswered /\ ~BlankQuery /\ RequestNq = <<>>) =>
        response.records = <<>>

(***************************************************************************)
(* Properties of the unify script.                                         *)
(***************************************************************************)
\* Two values of a field are the same value; NaN and null both stand for a
\* value that is missing.
SameValue(a, b) == a = b \/ (a \in {NoString, NaNLiteral} /\ b \in {NoString, NaNLiteral})

\* The records of the input that match none of the three attempts, or whose
\* nombre is not a string.
UnmatchedPositions(input) ==
    {i \in 1..Len(input) : MatchedKey(NombreOf(input[i])).tier = "none"}

EveryFieldUnchanged(in, out) ==
    /\ DOMAIN out = DOMAIN in
    /\ \A f \in DOMAIN in : SameValue(in[f], out[f])

\* out is in with the fields of the mapping entry vals set, and nothing else.
OnlyEnriched(in, out, vals) ==
    /\ DOMAIN out = DOMAIN in
    /\ DOMAIN vals = EnrichmentFields
    /\ \A f \in DOMAIN in :
          IF f \in DOMAIN vals THEN out[f] = vals[f]
          ELSE SameValue(in[f], out[f])

\* report names the unmatched records of input, one entry each, in order.
ReportsUnmatched(input, report) ==
    LET unmatched == UnmatchedPositions(input)
    IN  /\ Len(report) = Cardinality(unmatched)
        /\ \A k \in 1..Len(report) :
              SameValue(report[k],
                        NombreOf(input[CHOOSE i \in unmatched :
                            Cardinality({j \in unmatched : j < i}) = k - 1]))

NonDestructive(input, output, report) ==
    /\ Len(output) = Len(input)
    /\ \A i \in 1..Len(input) :
          IF i \in UnmatchedPositions(input)
          THEN EveryFieldUnchanged(input[i], output[i])
          ELSE OnlyEnriched(input[i], output[i],
                            EntryOf(MatchedKey(NombreOf(input[i])).key))
    /\ ReportsUnmatched(input, report)

\* C15: the run is non-destructive.  The file written has the records of
\* the file read, as many and in the same order; a record that matches none
\* of the three attempts, or whose nombre is not a string, has every field
\* unchanged and is reported in not_found; a matched record differs from its
\* input only in the fields of the mapping entry it matched.
C15_UnifyNonDestructive ==
    [][(pc = "save" /\ pc' = "done") =>
          NonDestructive(json_file, json_file', not_found')]_vars

\* The loop alone, on the records as they are in memory after the file is
\* read: when it ends, the records are those read, non-destructively filled.
UnifyLoopNonDestructive ==
    pc = "save" =>
        /\ NonDestructive(LoadRecords(json_file), records, not_found)
        /\ updated + Len(not_found) = Len(records)

(***************************************************************************)
(* Properties of concurrent conversations.                                 *)
(***************************************************************************)
Answered(c) ==
    inflight[c].request.op # "none" /\ inflight[c].response.body # "none"

\* The answer to request r when it is the only request: that of api_step or
\* of api_reservas, a function of the graph and (node_id, option_id,
\* user_input), or of the table and q.
AloneOutcome(r) ==
    IF r.op = "step"
    THEN LET alone == resolve_next_node(BuildIndex(bot_definition.nodes),
                                        r.node_id, r.option_id, r.user_input)
         IN  IF ~Truthy(r.node_id) THEN ErrorResponse(400, ErrMissingNodeId)
             ELSE IF alone.raised = None THEN PayloadResponse(alone.node)
             ELSE ErrorResponse(400, alone.raised)
    ELSE RecordsResponse(SearchRecords(reservas_list, r.q))

C17_Outcomes ==
    \A c \in Conversations :
        Answered(c) => inflight[c].response = AloneOutcome(inflight[c].request)

\* C17: whatever the interleaving of the step and search requests of the
\* conversations, no request (answered with a result or with an error)
\* changes the graph index or the record table, and every answer is the
\* answer that the request gets when it runs alone.
C17_NoCrossRequestState ==
    /\ []C17_Outcomes
    /\ [][UNCHANGED Globals]_vars

\* Two conversations are answered, by steps from different nodes with
\* different outcomes (a node and an error), while both were sent before
\* either was answered or not: each got the answer of its own request.
C17_Witness ==
    /\ Answered(1)
    /\ Answered(2)
    /\ inflight[1].request.op = "step"
    /\ inflight[2].request.op = "step"
    /\ inflight[1].request.node_id = "inicio_menu"
    /\ inflight[2].request.node_id = "B"
    /\ inflight[1].response.body = "payload"
    /\ inflight[1].response.payload.node_id = "B"
    /\ inflight[2].response.body = "error"
    /\ inflight[2].response # AloneOutcome(inflight[1].request)
    /\ nodes_index = BuildIndex(bot_definition.nodes)
====
